---- MODULE Spec2Model ----
(***************************************************************************)
(* Schema migration manager of trader-backend (package db) and the         *)
(* startup sequence of its two main programs.                              *)
(*                                                                         *)
(* The store is the SQLite file: its committed content is `store`; the     *)
(* uncommitted work of a process's open transaction is proc[p].tx and      *)
(* reaches `store` only through Commit.  A statement sequence handed to    *)
(* tx.Exec runs one statement at a time, so a body can fail after some of  *)
(* its statements ran.  Every store call may fail (a store-level error);   *)
(* a process may crash at any point and be started again on the same file. *)
(***************************************************************************)
EXTENDS Integers, Sequences, FiniteSets, TLC

\* ------------------------------------------------------------------ bounds

\* Catalog versions are drawn from 1..MaxVersion.
MaxVersion == 3

\* Number of times the program is started against the same store file.
MaxRuns == 3

\* ------------------------------------------------------------------ catalog

Versions == 1..MaxVersion

\* The compiled-in body of version 1 has three statements:
\* CREATE TABLE users, CREATE INDEX idx_users_username, CREATE INDEX idx_users_email.
BodyLen == 3

\* A schema object is <<version, k>>: the object created by the k-th statement
\* of that version's body.
users == <<1, 1>>
idx_users_username == <<1, 2>>
idx_users_email == <<1, 3>>

Objects == Versions \X (1..BodyLen)

MigrationName(v) == IF v = 1 THEN "create_users_table" ELSE "later_migration"

\* type Migration struct { Version, Name, SQL }
Migration(v) ==
    [Version |-> v, Name |-> MigrationName(v), SQL |-> [k \in 1..BodyLen |-> <<v, k>>]]

\* The catalog the program is compiled with.
GetMigrations == << Migration(1) >>

RECURSIVE Perms(_)
Perms(S) ==
    IF S = {} THEN { <<>> }
    ELSE UNION { { <<v>> \o q : q \in Perms(S \ {v}) } : v \in S }

\* The catalogs a build of the program may carry: any list of distinct versions,
\* in any order (the compiled-in one among them).
Catalogs ==
    { [i \in 1..Len(q) |-> Migration(q[i])] : q \in UNION { Perms(S) : S \in SUBSET Versions } }

\* ------------------------------------------------------------------ store

\* The migrations table: id AUTOINCREMENT, version UNIQUE, name.
LedgerRow(id, v, name) == [id |-> id, version |-> v, name |-> name]

EmptyStore == [migrationsTable |-> FALSE, migrations |-> <<>>, schema |-> {}]

NoTx == [open |-> FALSE, schema |-> {}, rows |-> <<>>]

\* No run of RunMigrations has ended yet on this store.
NoRun ==
    [result |-> "none", store |-> EmptyStore, idx |-> 0, base |-> EmptyStore,
     attempted |-> FALSE]

RowVersions(rows) == { rows[i].version : i \in 1..Len(rows) }

VARIABLES
    store,      \* committed content of the database file
    catalog,    \* what GetMigrations returns in this build
    variant,    \* which main program runs: "cmd" (cmd/t-backend) or "root"
    runs,       \* number of process starts so far
    lastRun,    \* how the latest run of RunMigrations ended, and the store it left
    proc        \* the running process: position, handles, open transaction, run history

vars == <<store, catalog, variant, runs, lastRun, proc>>

\* The processes that may open the store file.  The program is deployed as a
\* single instance: under Spec only process 1 is ever started.
Procs == {1, 2}

\* ------------------------------------------------------------------ SQL semantics

\* Fault variant: a plain CREATE TABLE, which is refused when the table exists.
CreateTablePlain(s) ==
    [ok |-> ~s.migrationsTable, store |-> [s EXCEPT !.migrationsTable = TRUE]]

\* CREATE TABLE IF NOT EXISTS migrations (...): creates the table when absent,
\* and is accepted, changing nothing, when the table exists.
CreateTableIfNotExists(s) ==
    [ok |-> TRUE, store |-> [s EXCEPT !.migrationsTable = TRUE]]

\* What statements running inside transaction t see: committed content plus
\* the transaction's own uncommitted work.
TxView(s, t) ==
    [migrationsTable |-> s.migrationsTable,
     migrations |-> s.migrations \o t.rows,
     schema |-> s.schema \cup t.schema]

\* Fault variant: the point query matches the surrogate key instead of the version.
CountVersionById(s, v) ==
    Cardinality({ i \in 1..Len(s.migrations) : s.migrations[i].id = v })

\* SELECT COUNT(*) FROM migrations WHERE version = ?
CountVersion(s, v) ==
    Cardinality({ i \in 1..Len(s.migrations) : s.migrations[i].version = v })

\* Fault variant: the skip test accepts a count of zero, so every entry is skipped.
AlreadyExecutedAlways(count) == count >= 0

\* Fault variant: the skip test is off by one.
AlreadyExecutedOffByOne(count) == count > 1

\* if count > 0 { ... continue }
AlreadyExecuted(count) == count > 0

\* Fault variant: the statement runs on the connection pool (dm.DB.Exec), outside
\* the transaction, and is committed at once.
DBExecStatement(s, t, o) ==
    [store |-> [s EXCEPT !.schema = @ \cup {o}], tx |-> t]

\* tx.Exec of one CREATE statement of a body: the object becomes part of the
\* transaction's uncommitted work, the committed content is untouched.
TxExecStatement(s, t, o) ==
    [store |-> s, tx |-> [t EXCEPT !.schema = @ \cup {o}]]

\* CREATE TABLE / CREATE INDEX without IF NOT EXISTS fails on an existing object.
ObjectExists(s, t, o) == o \in TxView(s, t).schema

\* Fault variant: the ledger row is inserted outside the transaction and is
\* committed at once.
DBInsertMigration(s, t, m) ==
    [store |-> [s EXCEPT !.migrations =
                   Append(@, LedgerRow(Len(s.migrations) + 1, m.Version, m.Name))],
     tx |-> t]

\* tx.Exec("INSERT INTO migrations (version, name) VALUES (?, ?)"): the row gets the
\* next AUTOINCREMENT id and is part of the transaction's uncommitted work.
TxInsertMigration(s, t, m) ==
    [store |-> s,
     tx |-> [t EXCEPT !.rows =
                Append(@, LedgerRow(Len(TxView(s, t).migrations) + 1, m.Version, m.Name))]]

\* version INTEGER NOT NULL UNIQUE: a second row with the same version is refused;
\* so is an insert into a table that does not exist.
InsertRefused(s, t, m) ==
    \/ ~s.migrationsTable
    \/ m.Version \in RowVersions(TxView(s, t).migrations)

\* tx.Commit(): the transaction's work becomes committed content, all at once.
Commit(s, t) == TxView(s, t)

\* Fault variant: the error path commits what the transaction did so far.
RollbackKeepsWork(s, t) == TxView(s, t)

\* tx.Rollback(): the transaction's work is discarded.
Rollback(s, t) == s

\* ------------------------------------------------------------------ process state

\* A process of the program that has not been started.
Off ==
    [pc |-> "off", idx |-> 0, stmt |-> 0, tx |-> NoTx,
     dmDB |-> "nil", userDB |-> "unset",
     run |-> "none", status |-> <<>>, failCause |-> "none",
     err |-> [msg |-> "", args |-> <<>>],
     queried |-> {}, present |-> {}, begun |-> {}, executed |-> <<>>,
     inserted |-> {}, committed |-> {},
     txBase |-> EmptyStore, entryBase |-> EmptyStore, prev |-> NoRun,
     faulted |-> FALSE, createCalls |-> 0, runCalls |-> 0, serverStarts |-> 0]

\* main() after NewDatabaseManager: dm.DB is nil.  cmd/t-backend builds the
\* application before InitializeDatabase, the other main after NewServer.
Started(var) ==
    [Off EXCEPT !.pc = IF var = "cmd" THEN "app" ELSE "Connect"]

Live(r) == r.pc \notin {"off", "fatal", "crashed", "exited"}

\* One step of process p: its new state r2 and the committed store s2 it leaves.
\* The end of a run of RunMigrations is remembered: how it ended, the store it
\* left, the catalog entry it ended at, whether that entry had been examined and
\* the store as it was when it was.
Step(p, r2, s2) ==
    /\ proc' = [proc EXCEPT ![p] = r2]
    /\ store' = s2
    /\ lastRun' = IF proc[p].run = "Running" /\ r2.run # "Running"
                  THEN [result |-> r2.run, store |-> s2, idx |-> r2.idx,
                        base |-> r2.entryBase,
                        attempted |-> IF r2.idx = 0 THEN FALSE
                                      ELSE catalog[r2.idx].Version \in r2.queried]
                  ELSE lastRun
    /\ UNCHANGED <<catalog, variant, runs>>

\* Fault variant: the loop walks the catalog from its last entry to its first.
AdvanceReverse(r) ==
    IF r.idx = 0 /\ Len(catalog) > 0
    THEN [r EXCEPT !.pc = "query", !.idx = Len(catalog)]
    ELSE IF r.idx > 1
    THEN [r EXCEPT !.pc = "query", !.idx = @ - 1]
    ELSE [r EXCEPT !.pc = "GetTableInfo", !.run = "Done"]

\* Fault variant: the loop never moves past its first entry.
AdvanceStuck(r) ==
    IF r.idx < Len(catalog)
    THEN [r EXCEPT !.pc = "query", !.idx = IF @ = 0 THEN 1 ELSE @]
    ELSE [r EXCEPT !.pc = "GetTableInfo", !.run = "Done"]

\* Fault variant: the loop stops one entry short of the end of the catalog.
AdvanceSkipsLast(r) ==
    IF r.idx + 1 < Len(catalog)
    THEN [r EXCEPT !.pc = "query", !.idx = @ + 1]
    ELSE [r EXCEPT !.pc = "GetTableInfo", !.run = "Done"]

\* End of one iteration of `for _, migration := range migrations`: the next
\* entry, or `return nil` after the last.
Advance(r) ==
    IF r.idx < Len(catalog)
    THEN [r EXCEPT !.pc = "query", !.idx = @ + 1]
    ELSE [r EXCEPT !.pc = "GetTableInfo", !.run = "Done"]

\* Fault variant: the error is logged (logger.Error) and main carries on.
FatalOnlyLogs(r) == [r EXCEPT !.pc = "GetTableInfo", !.tx = NoTx]

\* logger.Fatal: the process exits; the connection closes and with it any
\* transaction still open, whose work is lost.
Fatal(r) == [r EXCEPT !.pc = "fatal", !.tx = NoTx]

\* fmt.Errorf at each error return of RunMigrations: the format string and the
\* values formatted into it (the wrapped store error left aside).
Errorf(cause, m) ==
    CASE cause = "query"  -> [msg |-> "failed to check migration status: %w", args |-> <<>>]
      [] cause = "begin"  -> [msg |-> "failed to begin transaction: %w", args |-> <<>>]
      [] cause = "body"   -> [msg |-> "failed to execute migration %d: %w", args |-> <<m.Version>>]
      [] cause = "record" -> [msg |-> "failed to record migration %d: %w", args |-> <<m.Version>>]
      [] cause = "commit" -> [msg |-> "failed to commit migration %d: %w", args |-> <<m.Version>>]

\* Fault variant: the failed migration is logged and the loop carries on with
\* the next entry.
AbortContinues(r, cause, fault) ==
    Advance([r EXCEPT !.tx = NoTx, !.failCause = cause, !.faulted = @ \/ fault,
                      !.status = IF r.status[r.idx] = "Applying"
                                 THEN [@ EXCEPT ![r.idx] = "Failed"] ELSE @])

\* Fault variant: the error of the status query is dropped; count is still zero
\* and the entry is taken as pending.
AbortIgnoresQueryError(r, cause, fault) ==
    IF cause = "query"
    THEN [r EXCEPT !.pc = "begin", !.failCause = cause, !.faulted = @ \/ fault,
                   !.status[r.idx] = "Applying"]
    ELSE Fatal([r EXCEPT !.run = "Aborted", !.failCause = cause,
                         !.err = Errorf(cause, catalog[r.idx]),
                         !.faulted = @ \/ fault,
                         !.status = IF r.status[r.idx] = "Applying"
                                    THEN [@ EXCEPT ![r.idx] = "Failed"] ELSE @])

\* RunMigrations returns an error: InitializeDatabase returns it and main calls
\* logger.Fatal.
Abort(r, cause, fault) ==
    Fatal([r EXCEPT !.run = "Aborted", !.failCause = cause,
                    !.err = Errorf(cause, catalog[r.idx]),
                    !.faulted = @ \/ fault,
                    !.status = IF r.status[r.idx] = "Applying"
                               THEN [@ EXCEPT ![r.idx] = "Failed"] ELSE @])

Init1(started) ==
    /\ store = EmptyStore
    /\ catalog \in Catalogs
    /\ variant \in {"cmd", "root"}
    /\ runs = 1
    /\ lastRun = NoRun
    /\ proc = [p \in Procs |-> IF p \in started THEN Started(variant) ELSE Off]

Init == Init1({1})

\* Fault variant: the database file is opened without file locking, so writers
\* do not exclude each other.
NoLocking(p) == FALSE

\* The database file admits one writing transaction at a time: while another
\* connection's transaction has written and has not ended, a statement that
\* writes is refused ("database is locked").
WriteLocked(p) ==
    \E q \in Procs \ {p} :
        proc[q].tx.open /\ (proc[q].tx.schema # {} \/ proc[q].tx.rows # <<>>)

\* ------------------------------------------------------------------ startup

\* app := &application{user: &db.UserModel{DB: dbManager.DB, ...}}: the model
\* gets a copy of the handle dm.DB holds at this moment.
NewApplication(p) ==
    LET r == proc[p] IN
    /\ r.pc = "app"
    /\ Step(p, [r EXCEPT !.userDB = r.dmDB,
                         !.pc = IF variant = "cmd" THEN "Connect" ELSE "Start"], store)

\* DatabaseManager.Connect: sql.Open and Ping; dm.DB is set only on success.
Connect(p) ==
    LET r == proc[p] IN
    /\ r.pc = "Connect"
    /\ \E ok \in BOOLEAN :
         IF ok
         THEN Step(p, [r EXCEPT !.dmDB = "open", !.pc = "createMigrationsTable"], store)
         ELSE Step(p, Fatal([r EXCEPT !.faulted = TRUE]), store)

\* DatabaseManager.createMigrationsTable.
createMigrationsTable(p) ==
    LET r == [proc[p] EXCEPT !.createCalls = @ + 1]
        made == CreateTableIfNotExists(store)
    IN
    /\ proc[p].pc = "createMigrationsTable"
    /\ \E ok \in BOOLEAN :
         IF ok /\ made.ok
         THEN Step(p, [r EXCEPT !.pc = "RunMigrations"], made.store)
         ELSE Step(p, Fatal([r EXCEPT !.faulted = @ \/ ~ok]), store)

\* ------------------------------------------------------------------ RunMigrations

\* Entry: migrations := GetMigrations(); the loop starts at the first entry, or
\* returns nil at once when there is none.
RunMigrations(p) ==
    LET r == [proc[p] EXCEPT !.runCalls = @ + 1, !.run = "Running", !.prev = lastRun,
                             !.status = [i \in 1..Len(catalog) |-> "Pending"],
                             !.idx = 0]
    IN
    /\ proc[p].pc = "RunMigrations"
    /\ Step(p, Advance(r), store)

\* SELECT COUNT(*) ... Scan(&count), and the skip test.
QueryStatus(p) ==
    LET r == proc[p]
        m == catalog[r.idx]
        q == [r EXCEPT !.queried = @ \cup {m.Version}, !.entryBase = store,
                       !.present = @ \cup ({m.Version} \cap RowVersions(store.migrations))]
    IN
    /\ r.pc = "query"
    /\ \E ok \in BOOLEAN :
         IF ~ok \/ ~store.migrationsTable
         THEN Step(p, Abort(q, "query", ~ok), store)
         ELSE IF AlreadyExecuted(CountVersion(store, m.Version))
         THEN Step(p, Advance([q EXCEPT !.status[r.idx] = "Skipped"]), store)
         ELSE Step(p, [q EXCEPT !.pc = "begin", !.status[r.idx] = "Applying"], store)

\* tx, err := dm.DB.Begin()
Begin(p) ==
    LET r == proc[p]
        m == catalog[r.idx]
    IN
    /\ r.pc = "begin"
    /\ \E ok \in BOOLEAN :
         IF ok
         THEN Step(p, [r EXCEPT !.tx = [NoTx EXCEPT !.open = TRUE], !.txBase = store,
                                !.begun = @ \cup {m.Version},
                                !.pc = "exec", !.stmt = 1], store)
         ELSE Step(p, Abort(r, "begin", TRUE), store)

\* tx.Exec(migration.SQL), one statement of the body per step; on an error
\* tx.Rollback() and return.
ExecStatement(p) ==
    LET r == proc[p]
        m == catalog[r.idx]
        o == m.SQL[r.stmt]
        e == [r EXCEPT !.executed = IF r.stmt = 1 THEN Append(@, m.Version) ELSE @]
        done == TxExecStatement(store, r.tx, o)
    IN
    /\ r.pc = "exec"
    /\ \E ok \in BOOLEAN :
         IF ~ok \/ WriteLocked(p) \/ ObjectExists(store, r.tx, o)
         THEN Step(p, Abort(e, "body", ~ok), Rollback(store, r.tx))
         ELSE Step(p, [e EXCEPT !.tx = done.tx,
                                !.pc = IF r.stmt = Len(m.SQL) THEN "record" ELSE "exec",
                                !.stmt = IF r.stmt = Len(m.SQL) THEN 0 ELSE @ + 1],
                   done.store)

\* tx.Exec("INSERT INTO migrations ..."); on an error tx.Rollback() and return.
RecordMigration(p) ==
    LET r == proc[p]
        m == catalog[r.idx]
        done == TxInsertMigration(store, r.tx, m)
    IN
    /\ r.pc = "record"
    /\ \E ok \in BOOLEAN :
         IF ~ok \/ WriteLocked(p) \/ InsertRefused(store, r.tx, m)
         THEN Step(p, Abort(r, "record", ~ok), Rollback(store, r.tx))
         ELSE Step(p, [r EXCEPT !.tx = done.tx,
                                !.inserted = @ \cup {m.Version},
                                !.pc = "commit"], done.store)

\* tx.Commit(); a COMMIT that reports an error has committed nothing.
CommitMigration(p) ==
    LET r == proc[p]
        m == catalog[r.idx]
    IN
    /\ r.pc = "commit"
    /\ \E ok \in BOOLEAN :
         IF ok
         THEN Step(p, Advance([r EXCEPT !.tx = NoTx,
                                        !.committed = @ \cup {m.Version},
                                        !.status[r.idx] = "Applied"]),
                   Commit(store, r.tx))
         ELSE Step(p, Abort(r, "commit", TRUE), store)

\* ------------------------------------------------------------------ after startup

\* DatabaseManager.GetTableInfo: reads sqlite_master; an error is only logged.
GetTableInfo(p) ==
    LET r == proc[p] IN
    /\ r.pc = "GetTableInfo"
    /\ Step(p, [r EXCEPT !.pc = "NewServer"], store)

\* NewServer: builds the router; touches neither the store nor the handles.
NewServer(p) ==
    LET r == proc[p] IN
    /\ r.pc = "NewServer"
    /\ Step(p, [r EXCEPT !.pc = IF variant = "cmd" THEN "Start" ELSE "app"], store)

\* Server.Start: the listener goroutine starts accepting traffic.
Start(p) ==
    LET r == proc[p] IN
    /\ r.pc = "Start"
    /\ Step(p, [r EXCEPT !.pc = "serving", !.serverStarts = @ + 1], store)

\* SIGINT/SIGTERM: srv.Shutdown, main returns, the deferred dbManager.Close runs.
Shutdown(p) ==
    LET r == proc[p] IN
    /\ r.pc = "serving"
    /\ Step(p, [r EXCEPT !.pc = "exited", !.dmDB = "closed"], store)

\* The process dies at an arbitrary point.  SQLite discards the work of a
\* transaction that never committed; the committed content is as it was.
Crash(p) ==
    LET r == proc[p] IN
    /\ Live(r)
    /\ Step(p, [r EXCEPT !.pc = "crashed", !.tx = NoTx,
                         !.run = IF @ = "Running" THEN "Crashed" ELSE @], store)

\* The program is started again on the same database file.
Restart(p) ==
    /\ proc[p].pc \in {"fatal", "crashed", "exited"}
    /\ runs < MaxRuns
    /\ runs' = runs + 1
    /\ proc' = [proc EXCEPT ![p] = Started(variant)]
    /\ UNCHANGED <<store, catalog, variant, lastRun>>

Next ==
    \E p \in Procs :
        \/ NewApplication(p)
        \/ Connect(p)
        \/ createMigrationsTable(p)
        \/ RunMigrations(p)
        \/ QueryStatus(p)
        \/ Begin(p)
        \/ ExecStatement(p)
        \/ RecordMigration(p)
        \/ CommitMigration(p)
        \/ GetTableInfo(p)
        \/ NewServer(p)
        \/ Start(p)
        \/ Shutdown(p)
        \/ Crash(p)
        \/ Restart(p)

Spec == Init /\ [][Next]_vars

\* The steps of the loop of RunMigrations.  The loop is straight-line code of one
\* goroutine: while the process lives and a step is possible, it is taken.
RunStep(p) ==
    \/ QueryStatus(p)
    \/ Begin(p)
    \/ ExecStatement(p)
    \/ RecordMigration(p)
    \/ CommitMigration(p)

\* Two instances of the program started against the same database file, each
\* followed through InitializeDatabase; either may be killed on the way.  (What
\* a process does after InitializeDatabase returned does not touch the ledger.)
ConcInit == Init1({1, 2}) /\ variant = "root"

ConcNext ==
    \E p \in Procs :
        \/ Connect(p)
        \/ createMigrationsTable(p)
        \/ RunMigrations(p)
        \/ RunStep(p)
        \/ Crash(p)

ConcSpec == ConcInit /\ [][ConcNext]_vars

FairSpec == Spec /\ \A p \in Procs : WF_vars(RunStep(p))

\* ------------------------------------------------------------------ types

TypeOK ==
    /\ store.migrationsTable \in BOOLEAN
    /\ store.schema \subseteq Objects
    /\ catalog \in Catalogs
    /\ runs \in 1..MaxRuns
    /\ \A p \in Procs :
         /\ proc[p].idx \in 0..Len(catalog)
         /\ proc[p].tx.open \in BOOLEAN
         /\ proc[p].dmDB \in {"nil", "open", "closed"}
         /\ proc[p].userDB \in {"unset", "nil", "open"}
         /\ proc[p].run \in {"none", "Running", "Done", "Aborted", "Crashed"}

\* ------------------------------------------------------------------ properties

CatalogVersions == { catalog[i].Version : i \in 1..Len(catalog) }

LedgerVersions == RowVersions(store.migrations)

\* The objects the body of version v creates.
BodyObjects(v) == { <<v, k>> : k \in 1..BodyLen }

Range(q) == { q[i] : i \in 1..Len(q) }

IsPrefix(a, b) == Len(a) <= Len(b) /\ \A i \in 1..Len(a) : a[i] = b[i]

\* Position of version v in the catalog (0 when absent).
CatalogIndex(v) ==
    IF v \in CatalogVersions
    THEN CHOOSE i \in 1..Len(catalog) : catalog[i].Version = v
    ELSE 0

\* C1: a run of RunMigrations that follows a successful run on the same store and
\* meets no store error changes neither ledger nor schema, opens no transaction,
\* is not aborted, and ends with every catalog entry skipped.
C1_SecondRunIdempotent ==
    \A p \in Procs :
        LET r == proc[p] IN
        (r.run # "none" /\ r.prev.result = "Done" /\ ~r.faulted) =>
            /\ store = r.prev.store
            /\ r.begun = {} /\ r.executed = <<>> /\ r.inserted = {}
            /\ r.run # "Aborted"
            /\ \A i \in 1..Len(catalog) : r.status[i] \in {"Pending", "Skipped"}
            /\ r.run = "Done" => \A i \in 1..Len(catalog) : r.status[i] = "Skipped"

C1_Witness ==
    \E p \in Procs :
        /\ proc[p].run = "Done" /\ proc[p].prev.result = "Done" /\ ~proc[p].faulted
        /\ Len(catalog) >= 2
        /\ LedgerVersions = CatalogVersions

\* C2: a version that had a ledger row when the run examined it gets no
\* transaction, no body statement, no ledger insert and no commit in that run.
C2_PresentNeverReapplied ==
    \A p \in Procs :
        LET r == proc[p] IN
        \A v \in r.present :
            /\ v \notin r.begun
            /\ v \notin Range(r.executed)
            /\ v \notin r.inserted
            /\ v \notin r.committed
            /\ r.status[CatalogIndex(v)] \in {"Pending", "Skipped"}
            /\ r.run = "Done" => r.status[CatalogIndex(v)] = "Skipped"

C2_Witness ==
    \E p \in Procs :
        /\ proc[p].present # {}
        /\ proc[p].committed # {}
        /\ runs = MaxRuns

CatalogAscending ==
    \A i, j \in 1..Len(catalog) : i < j => catalog[i].Version < catalog[j].Version

Ascending(q) == \A i, j \in 1..Len(q) : i < j => q[i] < q[j]

\* C3 as claimed: within a run the bodies are executed in strictly ascending
\* version order, whatever the order of the catalog.
C3_AscendingWhateverCatalogOrder ==
    \A p \in Procs : Ascending(proc[p].executed)

\* C3 amended: within a run the bodies are executed in the order the catalog lists
\* them, each at most once; when the catalog lists its versions in ascending
\* order, that is strictly ascending version order.
C3_ExecutedInCatalogOrder ==
    \A p \in Procs :
        LET e == proc[p].executed IN
        /\ \A i, j \in 1..Len(e) : i < j => CatalogIndex(e[i]) < CatalogIndex(e[j])
        /\ CatalogAscending => Ascending(e)

C3_Witness ==
    \E p \in Procs :
        /\ Len(proc[p].executed) >= 2
        /\ proc[p].executed[1] > proc[p].executed[2]
        /\ proc[p].run = "Done"

\* C4: when a migration's body fails (possibly after some statements ran) or its
\* ledger insert fails, the store the aborted run leaves is the store as it was
\* when the migration's transaction began: no ledger row for the version and
\* none of its schema objects.
C4_FailedMigrationLeavesNoTrace ==
    \A p \in Procs :
        LET r == proc[p] IN
        (r.run = "Aborted" /\ r.failCause \in {"body", "record"}) =>
            LET v == catalog[r.idx].Version IN
            /\ store = r.txBase
            /\ v \notin LedgerVersions
            /\ BodyObjects(v) \cap store.schema = {}

C4_Witness ==
    \E p \in Procs :
        /\ proc[p].run = "Aborted" /\ proc[p].failCause = "body"
        /\ proc[p].stmt = BodyLen
        /\ store.migrations # <<>>

\* The versions a run has touched in any way.
Reached(r) == r.queried \cup r.begun \cup Range(r.executed) \cup r.inserted \cup r.committed

\* C5: a failing migration aborts the run with an error: the process is at its
\* fatal exit, nothing after the failing catalog entry was queried, executed or
\* recorded; with catalog [1,2,3] on an empty store and version 2 failing the
\* ledger holds version 1 only.
C5_FailFast ==
    \A p \in Procs :
        LET r == proc[p] IN
        /\ (\E i \in 1..Len(r.status) : r.status[i] = "Failed") => r.run = "Aborted"
        /\ r.failCause # "none" => r.run = "Aborted"
        /\ r.run = "Aborted" =>
              /\ r.pc = "fatal"
              /\ Reached(r) \subseteq { catalog[i].Version : i \in 1..r.idx }
              /\ \A i \in (r.idx + 1)..Len(catalog) : r.status[i] = "Pending"
        /\ ( /\ [i \in 1..Len(catalog) |-> catalog[i].Version] = <<1, 2, 3>>
             /\ runs = 1 /\ r.run = "Aborted" /\ r.idx = 2 )
           => LedgerVersions = {1}

C5_Witness ==
    \E p \in Procs :
        /\ [i \in 1..Len(catalog) |-> catalog[i].Version] = <<1, 2, 3>>
        /\ runs = 1 /\ proc[p].run = "Aborted" /\ proc[p].idx = 2
        /\ proc[p].failCause = "body"

\* C6: in every committed state of the store the schema and the ledger agree: the
\* objects of a version's body are all present when the ledger has a row for the
\* version and all absent when it has none.
C6_SchemaLedgerAgree ==
    \A v \in Versions :
        /\ v \in LedgerVersions => BodyObjects(v) \subseteq store.schema
        /\ v \notin LedgerVersions => BodyObjects(v) \cap store.schema = {}

C6_Witness ==
    \E p \in Procs :
        /\ proc[p].pc = "crashed"
        /\ proc[p].inserted \ proc[p].committed # {}
        /\ store.migrations # <<>>

\* C7: the ledger holds at most one row per version; every step keeps the rows it
\* had, and a step that adds rows is the commit of one migration: it adds one
\* row, for that migration's version, together with the objects of its body.
C7_LedgerOnlyGrows ==
    /\ [](\A i, j \in 1..Len(store.migrations) :
            store.migrations[i].version = store.migrations[j].version => i = j)
    /\ [][ /\ IsPrefix(store.migrations, store.migrations')
           /\ store.migrations' # store.migrations =>
                \E p \in Procs :
                    /\ proc[p].pc = "commit"
                    /\ LET m == catalog[proc[p].idx] IN
                       /\ m.Version \notin LedgerVersions
                       /\ store.migrations' =
                            Append(store.migrations,
                                   LedgerRow(Len(store.migrations) + 1, m.Version, m.Name))
                       /\ BodyObjects(m.Version) \cap store.schema = {}
                       /\ BodyObjects(m.Version) \subseteq store'.schema ]_vars

C7_Witness ==
    /\ Len(store.migrations) >= 2
    /\ runs >= 2

\* C8: no catalog entry is queried, and no run of RunMigrations starts, before the
\* process created the ledger table; a call of createMigrationsTable that finds
\* the table in place leaves the store as it is and, short of a store error,
\* succeeds.
C8_LedgerTableFirstAndIdempotent ==
    /\ [](\A p \in Procs :
            (proc[p].run # "none" \/ proc[p].queried # {}) =>
                proc[p].createCalls = 1 /\ store.migrationsTable)
    /\ [][ \A p \in Procs :
             ( /\ proc[p].pc = "createMigrationsTable"
               /\ proc'[p].createCalls = proc[p].createCalls + 1
               /\ store.migrationsTable )
             => /\ store' = store
                /\ ~proc'[p].faulted => proc'[p].pc = "RunMigrations" ]_vars

C8_Witness ==
    \E p \in Procs :
        /\ proc[p].pc = "RunMigrations"
        /\ store.migrations # <<>>

\* C9: a process calls createMigrationsTable and then RunMigrations at most once
\* each; the server is started only after both were called once and succeeded,
\* with every catalog migration in place; a process in which either failed is at
\* its fatal exit and has not started the server.
C9_StartupBeforeServing ==
    \A p \in Procs :
        LET r == proc[p] IN
        /\ r.createCalls <= 1 /\ r.runCalls <= 1 /\ r.serverStarts <= 1
        /\ r.runCalls = 1 => r.createCalls = 1
        /\ (r.serverStarts = 1 \/ r.pc \in {"Start", "serving"}) =>
              /\ r.createCalls = 1 /\ r.runCalls = 1 /\ r.run = "Done"
              /\ CatalogVersions \subseteq LedgerVersions
              /\ \A v \in CatalogVersions : BodyObjects(v) \subseteq store.schema
        /\ (r.run = "Aborted" \/ (r.faulted /\ r.run = "none")) =>
              r.pc = "fatal" /\ r.serverStarts = 0

C9_Witness ==
    \E p \in Procs :
        /\ proc[p].pc = "serving"
        /\ runs >= 2
        /\ lastRun.result = "Done"
        /\ Len(catalog) >= 2

\* C10: a run that returned success left every catalog entry applied or skipped
\* and every catalog version in the ledger; a run in which an entry failed, or
\* a store call failed, is aborted and the process is at its fatal exit.
C10_NoPartialSuccess ==
    \A p \in Procs :
        LET r == proc[p] IN
        /\ r.run = "Done" =>
              /\ \A i \in 1..Len(catalog) : r.status[i] \in {"Applied", "Skipped"}
              /\ CatalogVersions \subseteq LedgerVersions
              /\ r.failCause = "none"
        /\ r.run = "Aborted" <=> r.failCause # "none"
        /\ (\E i \in 1..Len(r.status) : r.status[i] \in {"Failed", "Applying"}) =>
              r.run \in {"Running", "Aborted", "Crashed"}
        /\ r.run = "Aborted" => r.pc = "fatal"

C10_Witness ==
    \E p \in Procs :
        /\ proc[p].run = "Done"
        /\ \E i, j \in 1..Len(catalog) :
             proc[p].status[i] = "Applied" /\ proc[p].status[j] = "Skipped"

\* C11: whenever a run is aborted, whatever the cause, the error RunMigrations
\* returns carries the version of the migration that was being processed.
C11_ErrorNamesVersion ==
    \A p \in Procs :
        LET r == proc[p] IN
        r.run = "Aborted" => catalog[r.idx].Version \in Range(r.err.args)

\* C12: the handle the application's UserModel holds, once it holds one, is the
\* open connection, handed over after the migrations completed.
C12_UserModelHandleOpen ==
    \A p \in Procs :
        LET r == proc[p] IN
        r.userDB # "unset" => r.userDB = "open" /\ r.run = "Done"

\* C13: a run that follows a run aborted or killed at a catalog entry it had
\* examined skips every entry before that one, retries that entry from a store
\* equal to the one the earlier run found when it examined it, applies it when
\* it gets past it (skips it when the earlier run failed in examining an entry
\* already applied), and on success leaves every catalog version in the ledger
\* exactly once.
C13_RestartResumes ==
    \A p \in Procs :
        LET r == proc[p]
            pv == proc[p].prev
        IN
        (r.run # "none" /\ pv.result \in {"Aborted", "Crashed"} /\ pv.attempted) =>
            /\ \A i \in 1..(pv.idx - 1) : i < r.idx => r.status[i] = "Skipped"
            /\ (r.idx = pv.idx /\ catalog[r.idx].Version \in r.queried) =>
                  r.entryBase = pv.base
            /\ (r.idx = pv.idx /\ catalog[r.idx].Version \in r.begun) =>
                  r.txBase = pv.base
            /\ (r.idx > pv.idx \/ r.run = "Done") =>
                  r.status[pv.idx] =
                     IF catalog[pv.idx].Version \in RowVersions(pv.base.migrations)
                     THEN "Skipped" ELSE "Applied"
            /\ r.run = "Done" =>
                  /\ LedgerVersions = RowVersions(pv.base.migrations) \cup
                        { catalog[i].Version : i \in pv.idx..Len(catalog) }
                  /\ CatalogVersions \subseteq LedgerVersions
                  /\ Len(store.migrations) = Cardinality(LedgerVersions)

C13_Witness ==
    \E p \in Procs :
        /\ proc[p].run = "Done"
        /\ proc[p].prev.result = "Crashed" /\ proc[p].prev.attempted
        /\ proc[p].prev.idx = 2 /\ Len(catalog) >= 3
        /\ proc[p].status[1] = "Skipped" /\ proc[p].status[2] = "Applied"

\* C14: with the compiled-in catalog, on a store that started empty, once
\* InitializeDatabase has succeeded the ledger has exactly one row, for version 1,
\* and the store holds the users table (with its two indexes) and the
\* migrations table.
C14_CompiledInCatalogScenario ==
    \A p \in Procs :
        (catalog = GetMigrations /\ proc[p].run = "Done") =>
            /\ Len(store.migrations) = 1
            /\ store.migrations[1].version = 1
            /\ store.migrations[1].name = "create_users_table"
            /\ store.migrationsTable
            /\ {users, idx_users_username, idx_users_email} \subseteq store.schema

C14_Witness ==
    \E p \in Procs :
        /\ catalog = GetMigrations /\ proc[p].run = "Done"
        /\ runs = 1
        /\ proc[p].status = <<"Applied">>
        /\ proc[p].pc = "GetTableInfo"

\* The moves of one catalog entry in the state machine of a run.
EntryMove(a, b) ==
    \/ a = b
    \/ a = "Pending" /\ b \in {"Skipped", "Applying"}
    \/ a = "Applying" /\ b \in {"Applied", "Failed"}

\* The moves of a run: it starts, and ends Done or Aborted, or its process is
\* killed.
RunMove(a, b) ==
    \/ a = b
    \/ a = "none" /\ b \in {"Running", "Done"}
    \/ a = "Running" /\ b \in {"Done", "Aborted", "Crashed"}

\* How far into the loop a running process is: entries passed, then the
\* position inside the current entry.
Rank(r) ==
    r.idx * (BodyLen + 4)
      + CASE r.pc = "query"  -> 0
          [] r.pc = "begin"  -> 1
          [] r.pc = "exec"   -> 1 + r.stmt
          [] r.pc = "record" -> BodyLen + 2
          [] r.pc = "commit" -> BodyLen + 3
          [] OTHER -> 0

\* A process image replaced by a fresh one (the program started again).
Restarted(p) == proc'[p] = Started(variant) /\ runs' = runs + 1

\* C15: a run moves Start -> Running -> Done | Aborted (or its process is killed);
\* each catalog entry moves Pending -> Skipped, or Pending -> Applying ->
\* Applied | Failed, one entry at a time; a run ends Done only with every entry
\* Applied or Skipped and a Failed entry ends the run Aborted; an Aborted run
\* takes no further step; every step of a run that leaves it running takes it
\* further into the loop, and every run that started comes to an end.
C15_RunStateMachine ==
    /\ [][ \A p \in Procs :
             \/ Restarted(p)
             \/ /\ RunMove(proc[p].run, proc'[p].run)
                /\ proc[p].run # "none" =>
                     /\ Len(proc'[p].status) = Len(catalog)
                     /\ \A i \in 1..Len(catalog) :
                          /\ EntryMove(proc[p].status[i], proc'[p].status[i])
                          /\ proc'[p].status[i] # proc[p].status[i] => i = proc[p].idx
                /\ proc'[p].run = "Done" =>
                     \A i \in 1..Len(catalog) : proc'[p].status[i] \in {"Applied", "Skipped"}
                /\ (\E i \in 1..Len(proc'[p].status) : proc'[p].status[i] = "Failed") =>
                     proc'[p].run = "Aborted"
                /\ proc[p].run = "Aborted" => proc'[p] = proc[p]
                /\ (proc[p].run = "Running" /\ proc'[p].run = "Running") =>
                     proc'[p] = proc[p] \/ Rank(proc'[p]) > Rank(proc[p]) ]_vars
    /\ \A p \in Procs :
         (proc[p].run = "Running") ~>
             (proc[p].run \in {"Done", "Aborted"} \/ proc[p].pc = "crashed")

C15_Witness ==
    \E p \in Procs :
        /\ proc[p].run = "Aborted"
        /\ \E i, j, k \in 1..Len(catalog) :
             /\ proc[p].status[i] = "Skipped"
             /\ proc[p].status[j] = "Failed"
             /\ proc[p].status[k] = "Pending"

\* C16: when the status query of a catalog entry fails, the run is aborted with
\* an error and the process is at its fatal exit; no transaction was opened for
\* the entry, the store is as it was when the query was issued, and the entry
\* and all later ones are untouched.
C16_QueryFailureAborts ==
    \A p \in Procs :
        LET r == proc[p] IN
        r.failCause = "query" =>
            LET v == catalog[r.idx].Version IN
            /\ r.run = "Aborted" /\ r.pc = "fatal"
            /\ r.err.msg = "failed to check migration status: %w"
            /\ ~r.tx.open
            /\ v \notin r.begun \cup Range(r.executed) \cup r.inserted \cup r.committed
            /\ store = r.entryBase
            /\ \A i \in r.idx..Len(catalog) : r.status[i] = "Pending"
            /\ Reached(r) \subseteq { catalog[i].Version : i \in 1..r.idx }

C16_Witness ==
    \E p \in Procs :
        /\ proc[p].failCause = "query"
        /\ proc[p].idx = 2 /\ Len(catalog) >= 3
        /\ proc[p].committed # {}

\* C17: with two processes running InitializeDatabase on the same store, the
\* ledger holds at most one row per version; rows are added only by the commit
\* of a migration whose version had no row and whose body objects were not yet
\* in the schema, so each body is committed at most once; and a process that
\* found a version absent which the other process then committed neither skips
\* nor applies it: it never gets past that entry, and its run does not end Done.
C17_ConcurrentRunsOneWinner ==
    /\ [](\A i, j \in 1..Len(store.migrations) :
            store.migrations[i].version = store.migrations[j].version => i = j)
    /\ [](\A p, q \in Procs : \A v \in Versions :
            (p # q /\ v \in proc[q].committed /\ v \in proc[p].queried \ proc[p].present) =>
                /\ v \notin proc[p].committed
                /\ proc[p].idx = CatalogIndex(v)
                /\ proc[p].status[proc[p].idx] \in {"Pending", "Applying", "Failed"}
                /\ proc[p].run \in {"Running", "Aborted", "Crashed"}
                /\ proc[p].status[proc[p].idx] = "Failed" =>
                      proc[p].run = "Aborted" /\ proc[p].pc = "fatal")
    /\ [][ store.migrations' # store.migrations =>
             \E p \in Procs :
                 /\ proc[p].pc = "commit"
                 /\ proc'[p].committed = proc[p].committed \cup {catalog[proc[p].idx].Version}
                 /\ LET m == catalog[proc[p].idx] IN
                    /\ m.Version \notin LedgerVersions
                    /\ BodyObjects(m.Version) \cap store.schema = {}
                    /\ store.migrations' =
                         Append(store.migrations,
                                LedgerRow(Len(store.migrations) + 1, m.Version, m.Name))
                    /\ store'.schema = store.schema \cup BodyObjects(m.Version) ]_vars

C17_Witness ==
    \E p, q \in Procs : \E v \in Versions :
        /\ p # q
        /\ v \in proc[q].committed
        /\ v \in proc[p].queried \ proc[p].present
        /\ v \in proc[p].begun
        /\ proc[p].run = "Aborted" /\ ~proc[p].faulted

====
